---- MODULE Spec2Model ----
(***************************************************************************)
(* A model of reparse: the regular-expression driven Parser (src/index.ts) *)
(* and the JSON grammar built on it (RootContext / ArrayContext /          *)
(* ObjectContext, dequote and the jsonParser rule table).                  *)
(*                                                                         *)
(* Text is a sequence of UTF-16 code units (integers).  A JSON value is a  *)
(* record of one fixed shape; arrays and objects are references to the     *)
(* context that owns the collection, as the JavaScript objects are.        *)
(***************************************************************************)
EXTENDS Integers, Sequences, FiniteSets, TLC

VARIABLES
  ctxs,      \* the context objects created so far; ctxs[1] is the RootContext
  cur,       \* Parser.parse's local `context`: index of the active context
  hist,      \* the matches the scanner has yielded so far (matched texts)
  index,     \* g.index: <<>> (undefined) or <<start of the current match>>
  lastIndex, \* g.lastIndex: the offset the scanner has reached
  status,    \* "scanning" | "parsed" | "done" | "failed"
  err,       \* the error thrown (meaningful when status = "failed")
  result,    \* the value final() returned (meaningful when status = "done")
  content,   \* the text given to parse
  caught,    \* the exception parse's catch block caught (ex)
  info,      \* what getLineInfo returned in parse's catch block
  re,        \* lastIndex of the Parser's compiled pattern, this.re (SpecReuse)
  outer,     \* the calls of parse that wait for a call an action made
  calls      \* the calls of JSON_parse that have ended

vars ==
  <<ctxs, cur, hist, index, lastIndex, status, err, result, content, caught, info,
    re, outer, calls>>

(***************************************************************************)
(* Characters                                                              *)
(***************************************************************************)
\* charCodeAt of the characters the model's inputs are written with
Ord ==
  [c \in {"\t", "\n", "\f", "\r", " ", "\"", "+", ",", "-", ".", "/", "0", "1",
          "2", "4", "9", ":", "A", "E", "F", "G", "[", "\\", "]", "_", "a", "b", "c", "e",
          "f", "l", "n", "o", "p", "r", "s", "t", "u", "x", "{", "}", "BS"} |->
     CASE c = "BS" -> 8   [] c = "\t" -> 9  [] c = "\n" -> 10 [] c = "\f" -> 12
       [] c = "\r" -> 13  [] c = " " -> 32  [] c = "\"" -> 34 [] c = "+" -> 43
       [] c = "," -> 44   [] c = "-" -> 45  [] c = "." -> 46  [] c = "/" -> 47
       [] c = "0" -> 48   [] c = "1" -> 49  [] c = "2" -> 50  [] c = "4" -> 52
       [] c = "9" -> 57   [] c = ":" -> 58  [] c = "A" -> 65  [] c = "E" -> 69
       [] c = "F" -> 70   [] c = "G" -> 71   [] c = "[" -> 91  [] c = "\\" -> 92 [] c = "]" -> 93
       [] c = "_" -> 95   [] c = "a" -> 97  [] c = "b" -> 98  [] c = "c" -> 99
       [] c = "e" -> 101
       [] c = "f" -> 102  [] c = "l" -> 108 [] c = "n" -> 110 [] c = "o" -> 111
       [] c = "p" -> 112  [] c = "r" -> 114 [] c = "s" -> 115 [] c = "t" -> 116
       [] c = "u" -> 117  [] c = "x" -> 120 [] c = "{" -> 123 [] c = "}" -> 125]

\* a text literal: the code units of a sequence of characters
Text(cs) == [i \in 1..Len(cs) |-> Ord[cs[i]]]

\* s.slice(from, to) with 0-based offsets, from <= to
Slice(s, from, to) == [i \in 1..(to - from) |-> s[from + i]]

(***************************************************************************)
(* JSONVALUE (part_000 12-17)                                              *)
(***************************************************************************)
Undefined == [t |-> "undefined", b |-> FALSE, n |-> 0, e |-> 0, s |-> <<>>, ref |-> 0]
NullValue == [t |-> "null", b |-> FALSE, n |-> 0, e |-> 0, s |-> <<>>, ref |-> 0]
BoolValue(b) == [t |-> "boolean", b |-> b, n |-> 0, e |-> 0, s |-> <<>>, ref |-> 0]
\* the number n * 10^e, n not a multiple of 10 (or n = e = 0)
NumberValue(n, e) == [t |-> "number", b |-> FALSE, n |-> n, e |-> e, s |-> <<>>, ref |-> 0]
StringValue(s) == [t |-> "string", b |-> FALSE, n |-> 0, e |-> 0, s |-> s, ref |-> 0]
\* the array / object created by the context object ctxs[id]
ArrayValue(id) == [t |-> "array", b |-> FALSE, n |-> 0, e |-> 0, s |-> <<>>, ref |-> id]
ObjectValue(id) == [t |-> "object", b |-> FALSE, n |-> 0, e |-> 0, s |-> <<>>, ref |-> id]

\* Typeof: the runtime kind named in "Unexpected <kind>"
Typeof(value) == value.t

(***************************************************************************)
(* Errors and results of a call                                            *)
(***************************************************************************)
\* new Error(message): no index property
Error(message) == [name |-> "Error", message |-> message, index |-> <<>>]
\* new IndexedError(index, message)
IndexedError(i, message) ==
  [name |-> "IndexedError", message |-> message, index |-> <<i>>]
NoError == [name |-> "", message |-> <<"", "">>, index |-> <<>>]

\* a call returned context `ret`, leaving the heap as h
Return(h, ret) == [ok |-> TRUE, h |-> h, ret |-> ret, err |-> NoError]
\* a call threw e, leaving the heap as h
Throw(h, e) == [ok |-> FALSE, h |-> h, ret |-> 0, err |-> e]

unexpectedCharacter(ch) == Error(<<"Unexpected character", ch>>)
unexpectedValue(value) == Error(<<"Unexpected", Typeof(value)>>)
\* the guards of the helpers: TRUE when the helper throws
unexpectedValueIfIsUndefined(target) == target # Undefined
unexpectedVaueIfIn(target, candidates) == target \notin candidates
unexpectedCharacterIfIn(target, candidates) == target \notin candidates
unexpectedValueIfIsString(target) == target.t # "string"

(***************************************************************************)
(* Context objects                                                         *)
(***************************************************************************)
NewRootContext ==
  [kind |-> "Root", state |-> "", value |-> Undefined, elems |-> <<>>,
   props |-> <<>>, name |-> Undefined, save |-> 0, start |-> 0]

\* mutant: a held null is taken for "no value yet" (this.value == null)
RootContext_add_NullIsUnset(h, c, value) ==
  IF h[c].value \notin {Undefined, NullValue}
  THEN Throw(h, unexpectedValue(value))
  ELSE Return([h EXCEPT ![c].value = value], c)

RootContext_add(h, c, value) ==
  IF unexpectedValueIfIsUndefined(h[c].value)
  THEN Throw(h, unexpectedValue(value))
  ELSE Return([h EXCEPT ![c].value = value], c)

RootContext_final(h, c) ==
  IF h[c].value = Undefined
  THEN [ok |-> FALSE, value |-> Undefined, err |-> Error(<<"Unexpected end", "">>)]
  ELSE [ok |-> TRUE, value |-> h[c].value, err |-> NoError]

\* mutant: the element is added before the state is checked
ArrayContext_add_PushFirst(h, c, value) ==
  IF unexpectedVaueIfIn(h[c].state, {"INITIAL", "COMMA"})
  THEN Throw([h EXCEPT ![c].elems = Append(@, value)], unexpectedValue(value))
  ELSE Return([h EXCEPT ![c].elems = Append(@, value), ![c].state = "VALUE"], c)

\* mutant: the state is left as it was when an element is added
ArrayContext_add_StateKept(h, c, value) ==
  IF unexpectedVaueIfIn(h[c].state, {"INITIAL", "COMMA"})
  THEN Throw(h, unexpectedValue(value))
  ELSE Return([h EXCEPT ![c].elems = Append(@, value)], c)

ArrayContext_add(h, c, value) ==
  IF unexpectedVaueIfIn(h[c].state, {"INITIAL", "COMMA"})
  THEN Throw(h, unexpectedValue(value))
  ELSE Return([h EXCEPT ![c].elems = Append(@, value), ![c].state = "VALUE"], c)

ArrayContext_comma(h, c) ==
  IF unexpectedCharacterIfIn(h[c].state, {"VALUE"})
  THEN Throw(h, unexpectedCharacter(","))
  ELSE Return([h EXCEPT ![c].state = "COMMA"], c)

\* mutant: `]` is also taken right after a comma
ArrayContext_closeSquareBracket_AfterComma(h, c) ==
  IF unexpectedCharacterIfIn(h[c].state, {"INITIAL", "VALUE", "COMMA"})
  THEN Throw(h, unexpectedCharacter("]"))
  ELSE Return(h, h[c].save)

ArrayContext_closeSquareBracket(h, c) ==
  IF unexpectedCharacterIfIn(h[c].state, {"INITIAL", "VALUE"})
  THEN Throw(h, unexpectedCharacter("]"))
  ELSE Return(h, h[c].save)

\* mutant: the offset reported is that of the enclosing context
ArrayContext_final_OuterStart(h, c) ==
  [ok |-> FALSE, value |-> Undefined,
   err |-> IndexedError(h[h[c].save].start, <<"Unmatched", "[">>)]

ArrayContext_final(h, c) ==
  [ok |-> FALSE, value |-> Undefined,
   err |-> IndexedError(h[c].start, <<"Unmatched", "[">>)]

\* the property name "__proto__"
PROTO == Text(<<"_", "_", "p", "r", "o", "t", "o", "_", "_">>)

\* this.value[name] = value on a plain object: an own property is created or
\* overwritten in place, except that assigning to "__proto__" runs the
\* inherited setter, which creates no own property.
SetProperty(props, name, value) ==
  IF name = PROTO THEN props
  ELSE IF \E i \in 1..Len(props) : props[i].k = name
       THEN [i \in 1..Len(props) |->
               IF props[i].k = name THEN [k |-> name, v |-> value] ELSE props[i]]
       ELSE Append(props, [k |-> name, v |-> value])

\* mutant: a property name is not required to be a string
ObjectContext_add_AnyName(h, c, value) ==
  CASE h[c].state \in {"INITIAL", "COMMA"} ->
         IF unexpectedValueIfIsUndefined(h[c].name)
         THEN Throw(h, unexpectedValue(value))
         ELSE Return([h EXCEPT ![c].name = value, ![c].state = "NAME"], c)
    [] h[c].state = "COLON" ->
         Return([h EXCEPT ![c].props = SetProperty(@, h[c].name.s, value),
                          ![c].state = "VALUE",
                          ![c].name = Undefined], c)
    [] OTHER -> Throw(h, unexpectedValue(value))

\* mutant: the name stays pending after its value was stored
ObjectContext_add_KeepName(h, c, value) ==
  CASE h[c].state \in {"INITIAL", "COMMA"} ->
         IF unexpectedValueIfIsString(value) THEN Throw(h, unexpectedValue(value))
         ELSE IF unexpectedValueIfIsUndefined(h[c].name)
              THEN Throw(h, unexpectedValue(value))
              ELSE Return([h EXCEPT ![c].name = value, ![c].state = "NAME"], c)
    [] h[c].state = "COLON" ->
         IF unexpectedValueIfIsString(h[c].name) THEN Throw(h, unexpectedValue(value))
         ELSE Return([h EXCEPT ![c].props = SetProperty(@, h[c].name.s, value),
                               ![c].state = "VALUE"], c)
    [] OTHER -> Throw(h, unexpectedValue(value))

ObjectContext_add(h, c, value) ==
  CASE h[c].state \in {"INITIAL", "COMMA"} ->
         IF unexpectedValueIfIsString(value) THEN Throw(h, unexpectedValue(value))
         ELSE IF unexpectedValueIfIsUndefined(h[c].name)
              THEN Throw(h, unexpectedValue(value))
              ELSE Return([h EXCEPT ![c].name = value, ![c].state = "NAME"], c)
    [] h[c].state = "COLON" ->
         IF unexpectedValueIfIsString(h[c].name) THEN Throw(h, unexpectedValue(value))
         ELSE Return([h EXCEPT ![c].props = SetProperty(@, h[c].name.s, value),
                               ![c].state = "VALUE",
                               ![c].name = Undefined], c)
    [] OTHER -> Throw(h, unexpectedValue(value))

ObjectContext_colon(h, c) ==
  IF unexpectedCharacterIfIn(h[c].state, {"NAME"})
  THEN Throw(h, unexpectedCharacter(":"))
  ELSE Return([h EXCEPT ![c].state = "COLON"], c)

ObjectContext_comma(h, c) ==
  IF unexpectedCharacterIfIn(h[c].state, {"VALUE"})
  THEN Throw(h, unexpectedCharacter(","))
  ELSE Return([h EXCEPT ![c].state = "COMMA"], c)

\* mutant: the close bracket returns to the Root
ObjectContext_closeCurlyBracket_ToRoot(h, c) ==
  IF unexpectedCharacterIfIn(h[c].state, {"INITIAL", "VALUE"})
  THEN Throw(h, unexpectedCharacter("}"))
  ELSE Return(h, 1)

ObjectContext_closeCurlyBracket(h, c) ==
  IF unexpectedCharacterIfIn(h[c].state, {"INITIAL", "VALUE"})
  THEN Throw(h, unexpectedCharacter("}"))
  ELSE Return(h, h[c].save)

ObjectContext_final(h, c) ==
  [ok |-> FALSE, value |-> Undefined,
   err |-> IndexedError(h[c].start, <<"Unmatched", "{">>)]

(***************************************************************************)
(* JsonContext: dynamic dispatch on the class of the context               *)
(***************************************************************************)
add(h, c, value) ==
  CASE h[c].kind = "Root" -> RootContext_add(h, c, value)
    [] h[c].kind = "Array" -> ArrayContext_add(h, c, value)
    [] h[c].kind = "Object" -> ObjectContext_add(h, c, value)

colon(h, c) ==
  CASE h[c].kind = "Root" -> Throw(h, unexpectedCharacter(":"))
    [] h[c].kind = "Array" -> Throw(h, unexpectedCharacter(":"))
    [] h[c].kind = "Object" -> ObjectContext_colon(h, c)

comma(h, c) ==
  CASE h[c].kind = "Root" -> Throw(h, unexpectedCharacter(","))
    [] h[c].kind = "Array" -> ArrayContext_comma(h, c)
    [] h[c].kind = "Object" -> ObjectContext_comma(h, c)

closeSquareBracket(h, c) ==
  CASE h[c].kind = "Root" -> Throw(h, unexpectedCharacter("]"))
    [] h[c].kind = "Array" -> ArrayContext_closeSquareBracket(h, c)
    [] h[c].kind = "Object" -> Throw(h, unexpectedCharacter("]"))

closeCurlyBracket(h, c) ==
  CASE h[c].kind = "Root" -> Throw(h, unexpectedCharacter("}"))
    [] h[c].kind = "Array" -> Throw(h, unexpectedCharacter("}"))
    [] h[c].kind = "Object" -> ObjectContext_closeCurlyBracket(h, c)

final(h, c) ==
  CASE h[c].kind = "Root" -> RootContext_final(h, c)
    [] h[c].kind = "Array" -> ArrayContext_final(h, c)
    [] h[c].kind = "Object" -> ObjectContext_final(h, c)

\* mutant: the constructor does not offer the array to the enclosing context
NewArrayContext_Unoffered(h, save, start) ==
  Return(Append(h, [kind |-> "Array", state |-> "INITIAL",
                    value |-> ArrayValue(Len(h) + 1), elems |-> <<>>,
                    props |-> <<>>, name |-> Undefined,
                    save |-> save, start |-> start]), Len(h) + 1)

\* new ArrayContext(save, start): the field initialisers create the array, the
\* constructor body offers it to the enclosing context; the object exists only
\* if that call returns.
NewArrayContext(h, save, start) ==
  LET id == Len(h) + 1
      r == add(h, save, ArrayValue(id))
  IN IF ~r.ok THEN r
     ELSE Return(Append(r.h, [kind |-> "Array", state |-> "INITIAL",
                             value |-> ArrayValue(id), elems |-> <<>>,
                             props |-> <<>>, name |-> Undefined,
                             save |-> save, start |-> start]), id)

NewObjectContext(h, save, start) ==
  LET id == Len(h) + 1
      r == add(h, save, ObjectValue(id))
  IN IF ~r.ok THEN r
     ELSE Return(Append(r.h, [kind |-> "Object", state |-> "INITIAL",
                             value |-> ObjectValue(id), elems |-> <<>>,
                             props |-> <<>>, name |-> Undefined,
                             save |-> save, start |-> start]), id)

(***************************************************************************)
(* The patterns of the jsonParser rule table (part_000 285-314)            *)
(***************************************************************************)
\* the code unit at 0-based offset i of s, or -1 past the end
CharAt(s, i) == IF 0 <= i /\ i < Len(s) THEN s[i + 1] ELSE -1

\* \d
Digits == Ord["0"]..Ord["9"]
\* \s
WhiteSpace ==
  (Ord["\t"]..Ord["\r"]) \cup {Ord[" "], 160, 5760, 8232, 8233, 8239, 8287, 12288, 65279}
    \cup (8192..8202)
\* what `.` does not match
LineTerminators == {Ord["\n"], Ord["\r"], 8232, 8233}
\* [0-9a-fA-F]
HexDigits == Digits \cup (Ord["a"]..Ord["f"]) \cup (Ord["A"]..Ord["F"])

\* the number of consecutive characters of class cls from offset i on
RECURSIVE Run(_, _, _)
Run(s, i, cls) == IF CharAt(s, i) \in cls THEN 1 + Run(s, i + 1, cls) ELSE 0

\* a pattern that is one literal text: the length matched at offset i, or -1
MatchLiteral(lit, s, i) ==
  IF i + Len(lit) <= Len(s) /\ Slice(s, i, i + Len(lit)) = lit THEN Len(lit) ELSE -1

\* the parts of /-?(?:0|[1-9]\d*)(?:\.\d+)?(?:[eE][-+]?\d+)?/ tried at offset i
\* -?
SignEnd(s, i) == IF CharAt(s, i) = Ord["-"] THEN i + 1 ELSE i
\* (?:0|[1-9]\d*) from p1: where it ends, or -1 (no match)
IntEnd(s, p1) ==
  IF CharAt(s, p1) = Ord["0"] THEN p1 + 1
  ELSE IF CharAt(s, p1) \in Digits THEN p1 + Run(s, p1, Digits)
  ELSE -1
\* (?:\.\d+)? from p2
FracEnd(s, p2) ==
  IF CharAt(s, p2) = Ord["."] /\ CharAt(s, p2 + 1) \in Digits
  THEN p2 + 1 + Run(s, p2 + 1, Digits) ELSE p2
\* where the digits of an exponent that starts at p3 start
ExpDigits(s, p3) ==
  IF CharAt(s, p3 + 1) \in {Ord["-"], Ord["+"]} THEN p3 + 2 ELSE p3 + 1
\* (?:[eE][-+]?\d+)? from p3
ExpEnd(s, p3) ==
  IF CharAt(s, p3) \in {Ord["e"], Ord["E"]} /\ CharAt(s, ExpDigits(s, p3)) \in Digits
  THEN ExpDigits(s, p3) + Run(s, ExpDigits(s, p3), Digits) ELSE p3

MatchNumber(s, i) ==
  IF IntEnd(s, SignEnd(s, i)) = -1 THEN -1
  ELSE ExpEnd(s, FracEnd(s, IntEnd(s, SignEnd(s, i)))) - i

\* the offset after the closing quote of [^"\\]*(?:\\.[^"\\]*)*" from offset p,
\* or -1
RECURSIVE StringEnd(_, _)
StringEnd(s, p) ==
  IF p >= Len(s) THEN -1
  ELSE IF CharAt(s, p) = Ord["\""] THEN p + 1
  ELSE IF CharAt(s, p) = Ord["\\"]
       THEN IF p + 1 < Len(s) /\ CharAt(s, p + 1) \notin LineTerminators
            THEN StringEnd(s, p + 2) ELSE -1
  ELSE StringEnd(s, p + 1)

\* /"[^"\\]*(?:\\.[^"\\]*)*"/
MatchString(s, i) ==
  IF CharAt(s, i) # Ord["\""] THEN -1
  ELSE LET e == StringEnd(s, i + 1) IN IF e = -1 THEN -1 ELSE e - i

\* mutant: /\s*/, which matches the empty text where no white space is
MatchWhiteSpace_OrNone(s, i) == Run(s, i, WhiteSpace)

\* /\s+/
MatchWhiteSpace(s, i) ==
  IF CharAt(s, i) \in WhiteSpace THEN Run(s, i, WhiteSpace) ELSE -1

\* the rules in declaration order: pattern1 .. pattern12
Rules == 1..12

\* the length rule r's pattern matches at offset i of s, or -1
MatchRule(r, s, i) ==
  CASE r = 1 -> MatchLiteral(Text(<<"n", "u", "l", "l">>), s, i)
    [] r = 2 -> MatchLiteral(Text(<<"t", "r", "u", "e">>), s, i)
    [] r = 3 -> MatchLiteral(Text(<<"f", "a", "l", "s", "e">>), s, i)
    [] r = 4 -> MatchNumber(s, i)
    [] r = 5 -> MatchString(s, i)
    [] r = 6 -> MatchLiteral(Text(<<"[">>), s, i)
    [] r = 7 -> MatchLiteral(Text(<<"{">>), s, i)
    [] r = 8 -> MatchLiteral(Text(<<"]">>), s, i)
    [] r = 9 -> MatchLiteral(Text(<<"}">>), s, i)
    [] r = 10 -> MatchLiteral(Text(<<",">>), s, i)
    [] r = 11 -> MatchLiteral(Text(<<":">>), s, i)
    [] r = 12 -> MatchWhiteSpace(s, i)

\* the scanner's next match of the combined pattern at offset i: the first
\* alternative, in declaration order, that matches there
NextMatch(s, i) ==
  LET able == {r \in Rules : MatchRule(r, s, i) >= 0}
  IN IF able = {} THEN [found |-> FALSE, rule |-> 0, matched |-> <<>>]
     ELSE LET r == CHOOSE x \in able : \A y \in able : x <= y
          IN [found |-> TRUE, rule |-> r,
              matched |-> Slice(s, i, i + MatchRule(r, s, i))]

(***************************************************************************)
(* The actions of the rules                                                *)
(***************************************************************************)
\* the value of a run of decimal digits
RECURSIVE DecVal(_)
DecVal(ds) ==
  IF ds = <<>> THEN 0
  ELSE 10 * DecVal(SubSeq(ds, 1, Len(ds) - 1)) + (ds[Len(ds)] - Ord["0"])

RECURSIVE Normalize(_, _)
Normalize(m, e) ==
  IF m = 0 THEN NumberValue(0, 0)
  ELSE IF m % 10 = 0 THEN Normalize(m \div 10, e + 1)
  ELSE NumberValue(m, e)

\* the decimal with integer digits int, fraction digits frac and exponent ex
Decimal(neg, int, frac, ex) ==
  Normalize(IF neg THEN 0 - DecVal(int \o frac) ELSE DecVal(int \o frac),
            ex - Len(frac))

\* the exponent of a number text whose fraction ends at p3 and which ends at p4
Exponent(matched, p3, p4) ==
  IF p4 = p3 THEN 0
  ELSE IF CharAt(matched, p3 + 1) = Ord["-"]
       THEN 0 - DecVal(Slice(matched, ExpDigits(matched, p3), p4))
       ELSE DecVal(Slice(matched, ExpDigits(matched, p3), p4))

NumberOfParts(matched, p1, p2, p3) ==
  Decimal(p1 = 1, Slice(matched, p1, p2),
          IF p3 > p2 THEN Slice(matched, p2 + 1, p3) ELSE <<>>,
          Exponent(matched, p3, Len(matched)))

\* +matched for a text the number pattern matched: the decimal it denotes
\* (negative zero is not told apart from zero)
ToNumber(matched) ==
  NumberOfParts(matched, SignEnd(matched, 0), IntEnd(matched, SignEnd(matched, 0)),
                FracEnd(matched, IntEnd(matched, SignEnd(matched, 0))))

\* mutant: \/ is not among the escapes
DEQUOTE_NoSolidus ==
  [ch \in {Ord["b"], Ord["f"], Ord["n"], Ord["r"], Ord["t"], Ord["\""], Ord["\\"]} |->
     CASE ch = Ord["b"] -> Ord["BS"] [] ch = Ord["f"] -> Ord["\f"]
       [] ch = Ord["n"] -> Ord["\n"] [] ch = Ord["r"] -> Ord["\r"]
       [] ch = Ord["t"] -> Ord["\t"] [] ch = Ord["\""] -> Ord["\""]
       [] ch = Ord["\\"] -> Ord["\\"]]

DEQUOTE ==
  [ch \in {Ord["b"], Ord["f"], Ord["n"], Ord["r"], Ord["t"], Ord["\""], Ord["/"],
           Ord["\\"]} |->
     CASE ch = Ord["b"] -> Ord["BS"] [] ch = Ord["f"] -> Ord["\f"]
       [] ch = Ord["n"] -> Ord["\n"] [] ch = Ord["r"] -> Ord["\r"]
       [] ch = Ord["t"] -> Ord["\t"] [] ch = Ord["\""] -> Ord["\""]
       [] ch = Ord["/"] -> Ord["/"]  [] ch = Ord["\\"] -> Ord["\\"]]

HexVal(c) ==
  IF c \in Digits THEN c - Ord["0"]
  ELSE IF c >= Ord["a"] THEN c - Ord["a"] + 10 ELSE c - Ord["A"] + 10

\* parseInt(hex, 16) for a text of hexadecimal digits
RECURSIVE ParseHex(_)
ParseHex(hex) ==
  IF hex = <<>> THEN 0
  ELSE 16 * ParseHex(SubSeq(hex, 1, Len(hex) - 1)) + HexVal(hex[Len(hex)])

UnexpectedEscape(at) == IndexedError(at, <<"Unexpected escape sequence", "">>)

\* the offset an "Unexpected escape sequence" raised for the match at offset
\* `at` of the de-quoted text carries: (start ?? 0) + index
EscapeErrorIndex(start, at) == start + at

\* replace(body, /\\u([\s\S]{0,4})|\\(.)/g, callback) from offset p of body on:
\* the text after replacement, or the error the first failing callback threw
RECURSIVE Replace(_, _, _)
Replace(body, p, start) ==
  IF p >= Len(body) THEN [ok |-> TRUE, s |-> <<>>, err |-> NoError]
  ELSE IF CharAt(body, p) = Ord["\\"] /\ CharAt(body, p + 1) = Ord["u"]
  THEN \* \\u([\s\S]{0,4}): greedy, up to four characters of any kind
       LET to == IF p + 6 <= Len(body) THEN p + 6 ELSE Len(body)
           hex == Slice(body, p + 2, to)
       IN IF hex # <<>>
          THEN IF Len(hex) # 4 \/ \E k \in 1..Len(hex) : hex[k] \notin HexDigits
               THEN [ok |-> FALSE, s |-> <<>>,
                     err |-> UnexpectedEscape(EscapeErrorIndex(start, p))]
               ELSE LET rest == Replace(body, to, start)
                    IN IF rest.ok
                       THEN [rest EXCEPT !.s = <<ParseHex(hex)>> \o @]
                       ELSE rest
          \* hex is '' (falsy), ch is undefined: DEQUOTE[undefined] is undefined
          ELSE [ok |-> FALSE, s |-> <<>>,
                err |-> UnexpectedEscape(EscapeErrorIndex(start, p))]
  ELSE IF CharAt(body, p) = Ord["\\"] /\ p + 1 < Len(body)
          /\ CharAt(body, p + 1) \notin LineTerminators
  THEN \* \\(.)
       LET ch == CharAt(body, p + 1)
       IN IF ch \in DOMAIN DEQUOTE
          THEN LET rest == Replace(body, p + 2, start)
               IN IF rest.ok THEN [rest EXCEPT !.s = <<DEQUOTE[ch]>> \o @]
                  ELSE rest
          ELSE [ok |-> FALSE, s |-> <<>>,
                err |-> UnexpectedEscape(EscapeErrorIndex(start, p))]
  ELSE \* no match here: the character is kept
       LET rest == Replace(body, p + 1, start)
       IN IF rest.ok THEN [rest EXCEPT !.s = <<CharAt(body, p)>> \o @] ELSE rest

\* dequote(s, start): s.slice(1, -1) with its escape sequences replaced
dequote(s, start) == Replace(Slice(s, 1, Len(s) - 1), 0, start)

\* mutant: white space makes the Root the active context again
WhiteSpaceAction_BackToRoot(h, c) == Return(h, 1)

\* the action of the white space rule: (_, context) => context
WhiteSpaceAction(h, c) == Return(h, c)

\* the action bound to rule r, called with (matched, context, index)
RuleAction(r, matched, h, c, i) ==
  CASE r = 1 -> add(h, c, NullValue)
    [] r = 2 -> add(h, c, BoolValue(TRUE))
    [] r = 3 -> add(h, c, BoolValue(FALSE))
    [] r = 4 -> add(h, c, ToNumber(matched))
    [] r = 5 -> LET d == dequote(matched, i)
                IN IF d.ok THEN add(h, c, StringValue(d.s)) ELSE Throw(h, d.err)
    [] r = 6 -> NewArrayContext(h, c, i)
    [] r = 7 -> NewObjectContext(h, c, i)
    [] r = 8 -> closeSquareBracket(h, c)
    [] r = 9 -> closeCurlyBracket(h, c)
    [] r = 10 -> comma(h, c)
    [] r = 11 -> colon(h, c)
    [] r = 12 -> WhiteSpaceAction(h, c)

(***************************************************************************)
(* getLineInfo (index.ts 41-58)                                            *)
(***************************************************************************)
\* /([^\r\n]*)(?:\r?\n|$)/y tried at offset i: the length of the line and of
\* the whole match, or no match (the line is followed by a lone \r)
LineMatch(s, i) ==
  LET a == Run(s, i, {s[k] : k \in 1..Len(s)} \ {Ord["\r"], Ord["\n"]})
      t == IF CharAt(s, i + a) = Ord["\r"] /\ CharAt(s, i + a + 1) = Ord["\n"] THEN 2
           ELSE IF CharAt(s, i + a) = Ord["\n"] THEN 1
           ELSE IF i + a = Len(s) THEN 0
           ELSE -1
  IN [found |-> t >= 0, line |-> Slice(s, i, i + a), len |-> a + t]

\* called: getLineInfo was called, with offset `at`; ok: it returned lineNo,
\* columnNo and line; showLine: the message has "(line: N)"
NoInfo == [called |-> FALSE, ok |-> FALSE, lineNo |-> 0, columnNo |-> 0,
           line |-> <<>>, showLine |-> FALSE, at |-> 0]

\* the comparison that ends getLineInfo's loop
LineFound(at, matchLastIndex) == at <= matchLastIndex

\* the loop of getLineInfo from the match at offset pos, line number lineNo
RECURSIVE LineLoop(_, _, _, _)
LineLoop(s, at, pos, lineNo) ==
  LET m == LineMatch(s, pos)
  IN IF ~m.found THEN [NoInfo EXCEPT !.called = TRUE, !.at = at]
     ELSE IF LineFound(at, pos + m.len)
     THEN [called |-> TRUE, ok |-> TRUE, lineNo |-> lineNo, columnNo |-> at - pos,
           line |-> m.line, showLine |-> Len(m.line) # Len(s), at |-> at]
     \* an empty match at the end of the text is the scanner's last
     ELSE IF m.len = 0 THEN [NoInfo EXCEPT !.called = TRUE, !.at = at]
     ELSE LineLoop(s, at, pos + m.len, lineNo + 1)

\* ok = FALSE: the loop ended without returning, unreachable() throws
getLineInfo(s, at) == LineLoop(s, at, 0, 1)

\* mutant: g.index ?? ex.index ?? g.lastIndex
ErrorOffset_MatchStartFirst(ex, gIndex, gLastIndex) ==
  IF gIndex # <<>> THEN gIndex[1]
  ELSE IF ex.index # <<>> THEN ex.index[1]
  ELSE gLastIndex

\* ex.index ?? g.index ?? g.lastIndex
ErrorOffset(ex, gIndex, gLastIndex) ==
  IF ex.index # <<>> THEN ex.index[1]
  ELSE IF gIndex # <<>> THEN gIndex[1]
  ELSE gLastIndex

(***************************************************************************)
(* Parser.parse (index.ts 95-134) and JSON_parse (part_000 316-318)        *)
(***************************************************************************)
\* the catch block for exception ex: the line information looked up in text
\* s, and the error parse throws: ex's message with the line information, or
\* the error of unreachable() when getLineInfo found no line
Caught(ex, gIndex, gLastIndex, s) ==
  LET li == getLineInfo(s, ErrorOffset(ex, gIndex, gLastIndex))
  IN [err |-> IF li.ok THEN Error(ex.message)
              ELSE Error(<<"It should be unreachable here.", "">>),
      info |-> li, ex |-> ex]

\* one turn of the for-loop: the scanner yields the match `matched` of rule r
\* at offset `at`, and the rule's action runs; s is the text being parsed
MatchAt(at, r, matched, s) ==
  LET res == RuleAction(r, matched, ctxs, cur, at)
      c == Caught(res.err, <<at>>, at + Len(matched), s)
  IN /\ hist' = Append(hist, matched)
     /\ index' = <<at>>
     /\ lastIndex' = at + Len(matched)
     /\ ctxs' = res.h
     /\ result' = result
     /\ IF res.ok
        THEN /\ cur' = res.ret
             /\ status' = "scanning"
             /\ UNCHANGED <<err, caught, info>>
        ELSE /\ cur' = cur
             /\ status' = "failed"
             /\ err' = c.err
             /\ caught' = c.ex
             /\ info' = c.info

\* the match starts at the offset the scanner has reached
Match(r, matched, s) == MatchAt(lastIndex, r, matched, s)

\* the scanner has no further match: parse throws "Unrecognized token" if it
\* stopped before the end of s, and returns the context otherwise
ScanEnd(s) ==
  LET ex == IndexedError(lastIndex, <<"Unrecognized token", "">>)
      c == Caught(ex, <<>>, lastIndex, s)
  IN /\ index' = <<>>
     /\ UNCHANGED <<ctxs, cur, hist, lastIndex, result>>
     /\ IF lastIndex < Len(s)
        THEN /\ status' = "failed"
             /\ err' = c.err
             /\ caught' = c.ex
             /\ info' = c.info
        ELSE /\ status' = "parsed"
             /\ UNCHANGED <<err, caught, info>>

\* JSON_parse calls final() on the context parse returned
CallFinal ==
  /\ status = "parsed"
  /\ LET f == final(ctxs, cur)
     IN /\ status' = IF f.ok THEN "done" ELSE "failed"
        /\ result' = f.value
        /\ err' = f.err
  /\ UNCHANGED <<ctxs, cur, hist, index, lastIndex, content, caught, info>>
  /\ UNCHANGED <<re, outer, calls>>

(***************************************************************************)
(* Spec: JSON_parse on a text that is revealed one match at a time.  The   *)
(* scanner may yield any match that the combined pattern finds in the text *)
(* read so far followed by the new match; `content` is the text read.      *)
(***************************************************************************)
MaxTokens == 6

NumberLexemes == {Text(<<"1">>), Text(<<"-", "2">>)}
StringLexemes == {Text(<<"\"", "a", "\"">>), Text(<<"\"", "b", "\"">>)}
WhiteSpaceLexemes == {Text(<<" ">>)}

\* appending `matched` to the text read leaves the previous match as it was,
\* and the scanner then yields `matched` by rule r
Scannable(r, matched) ==
  LET s == content \o matched
      prev == IF index = <<>> THEN lastIndex ELSE index[1]
      m1 == NextMatch(s, prev)
      m2 == NextMatch(s, lastIndex)
  IN /\ index # <<>> => (m1.found /\ prev + Len(m1.matched) = lastIndex)
     /\ m2.found /\ m2.rule = r /\ m2.matched = matched

Yield(r, matched) ==
  /\ status = "scanning"
  /\ Len(hist) < MaxTokens
  /\ Scannable(r, matched)
  /\ content' = content \o matched
  /\ Match(r, matched, content \o matched)
  /\ UNCHANGED <<re, outer, calls>>

RuleNull == Yield(1, Text(<<"n", "u", "l", "l">>))
RuleTrue == Yield(2, Text(<<"t", "r", "u", "e">>))
RuleFalse == Yield(3, Text(<<"f", "a", "l", "s", "e">>))
RuleNumber == \E m \in NumberLexemes : Yield(4, m)
RuleString == \E m \in StringLexemes : Yield(5, m)
RuleOpenSquareBracket == Yield(6, Text(<<"[">>))
RuleOpenCurlyBracket == Yield(7, Text(<<"{">>))
RuleCloseSquareBracket == Yield(8, Text(<<"]">>))
RuleCloseCurlyBracket == Yield(9, Text(<<"}">>))
RuleComma == Yield(10, Text(<<",">>))
RuleColon == Yield(11, Text(<<":">>))
RuleWhiteSpace == \E m \in WhiteSpaceLexemes : Yield(12, m)

\* the text ends after the matches read so far
EndOfText ==
  /\ status = "scanning"
  /\ content' = content
  /\ ScanEnd(content)
  /\ UNCHANGED <<re, outer, calls>>

Init ==
  /\ ctxs = <<NewRootContext>>
  /\ cur = 1
  /\ hist = <<>>
  /\ index = <<>>
  /\ lastIndex = 0
  /\ status = "scanning"
  /\ err = NoError
  /\ result = Undefined
  /\ content = <<>>
  /\ caught = NoError
  /\ info = NoInfo
  /\ re = 0
  /\ outer = <<>>
  /\ calls = <<>>

Next ==
  \/ RuleNull
  \/ RuleTrue
  \/ RuleFalse
  \/ RuleNumber
  \/ RuleString
  \/ RuleOpenSquareBracket
  \/ RuleOpenCurlyBracket
  \/ RuleCloseSquareBracket
  \/ RuleCloseCurlyBracket
  \/ RuleComma
  \/ RuleColon
  \/ RuleWhiteSpace
  \/ EndOfText
  \/ CallFinal

Spec == Init /\ [][Next]_vars

(***************************************************************************)
(* Vocabulary of the properties                                            *)
(***************************************************************************)
\* the rule whose pattern yields the text m
RuleOf(m) == NextMatch(m, 0).rule
ValueRules == {1, 2, 3, 4, 5}
\* the kind of the value a rule offers to the active context
KindOfRule(r) ==
  CASE r = 1 -> "null" [] r \in {2, 3} -> "boolean" [] r = 4 -> "number"
    [] r = 5 -> "string" [] r = 6 -> "array" [] r = 7 -> "object" [] OTHER -> ""
\* this step processed a match and its action returned
Accepted == hist' # hist /\ status' = "scanning"
Active == ctxs[cur]
\* parse returned and final() threw
FinalFailed == status = "failed" /\ ~info.called
\* the action of the last match threw
ActionFailed == status = "failed" /\ info.called /\ index # <<>>

\* C1: while an ArrayContext is active, a value (a scalar, or the collection
\* of a `[` or `{`) is accepted exactly in INITIAL and COMMA, is appended and
\* moves the array to VALUE; a comma is accepted exactly in VALUE and moves it
\* to COMMA; `]` is accepted exactly in INITIAL and VALUE; `:` and `}` are
\* never accepted.
C1_ArrayStep ==
  (hist' # hist /\ Active.kind = "Array") =>
    LET r == RuleOf(hist'[Len(hist')])
        st == Active.state
    IN /\ r \in ValueRules \cup {6, 7} =>
            /\ Accepted <=> st \in {"INITIAL", "COMMA"}
            /\ Accepted =>
                 /\ Len(ctxs'[cur].elems) = Len(Active.elems) + 1
                 /\ SubSeq(ctxs'[cur].elems, 1, Len(Active.elems)) = Active.elems
                 /\ ctxs'[cur].elems[Len(Active.elems) + 1].t = KindOfRule(r)
                 /\ ctxs'[cur].state = "VALUE"
                 /\ r \in ValueRules => cur' = cur
       /\ r = 10 =>
            /\ Accepted <=> st = "VALUE"
            /\ Accepted => ctxs'[cur].state = "COMMA" /\ cur' = cur
       /\ r = 8 =>
            /\ Accepted <=> st \in {"INITIAL", "VALUE"}
            /\ Accepted => cur' = Active.save
       /\ r \in {9, 11} => ~Accepted
C1_ArrayTransitions == [][C1_ArrayStep]_vars

\* C1 witness: a `]` right after a comma was rejected
C1_TrailingCommaRejected ==
  /\ ActionFailed
  /\ Active.kind = "Array" /\ Active.state = "COMMA"
  /\ err.message = <<"Unexpected character", "]">>

\* C2: while an ObjectContext is active, a string is accepted as a name
\* exactly in INITIAL and COMMA (moving to NAME) and any other value is
\* rejected there; `:` is accepted exactly in NAME (moving to COLON); any value
\* is accepted in COLON (moving to VALUE); every value is rejected in NAME and
\* VALUE; a comma is accepted exactly in VALUE; `}` is accepted exactly in
\* INITIAL and VALUE; `]` is never accepted.
C2_ObjectStep ==
  (hist' # hist /\ Active.kind = "Object") =>
    LET r == RuleOf(hist'[Len(hist')])
        st == Active.state
    IN /\ r \in ValueRules \cup {6, 7} =>
            /\ Accepted <=> \/ st \in {"INITIAL", "COMMA"} /\ r = 5
                            \/ st = "COLON"
            /\ (Accepted /\ st \in {"INITIAL", "COMMA"}) =>
                 /\ ctxs'[cur].state = "NAME"
                 /\ ctxs'[cur].name.t = "string"
                 /\ cur' = cur
            /\ (Accepted /\ st = "COLON") => ctxs'[cur].state = "VALUE"
       /\ r = 11 =>
            /\ Accepted <=> st = "NAME"
            /\ Accepted => ctxs'[cur].state = "COLON" /\ cur' = cur
       /\ r = 10 =>
            /\ Accepted <=> st = "VALUE"
            /\ Accepted => ctxs'[cur].state = "COMMA" /\ cur' = cur
       /\ r = 9 =>
            /\ Accepted <=> st \in {"INITIAL", "VALUE"}
            /\ Accepted => cur' = Active.save
       /\ r = 8 => ~Accepted
C2_ObjectTransitions == [][C2_ObjectStep]_vars

\* C2 witness: a value that is not a string was rejected where a property
\* name is expected after a comma
C2_NonStringNameRejected ==
  /\ ActionFailed
  /\ Active.kind = "Object" /\ Active.state = "COMMA"
  /\ err.message[1] = "Unexpected" /\ err.message[2] # "string"

\* C3: the RootContext accepts a value exactly while it holds none (a held
\* null counts as a value); a rejected value fails as "Unexpected <kind>" with
\* the kind of the value offered; `:`, `,`, `]` and `}` fail as "Unexpected
\* character" in every state of the Root.
C3_RootStep ==
  (hist' # hist /\ Active.kind = "Root") =>
    LET r == RuleOf(hist'[Len(hist')])
    IN /\ r \in ValueRules \cup {6, 7} =>
            /\ Accepted <=> Active.value = Undefined
            /\ Accepted <=> Len(SelectSeq(hist, LAMBDA m : RuleOf(m) # 12)) = 0
            /\ Accepted => ctxs'[1].value.t = KindOfRule(r)
            /\ ~Accepted =>
                 /\ err'.message = <<"Unexpected", KindOfRule(r)>>
                 /\ ctxs' = ctxs
       /\ r \in {8, 9, 10, 11} =>
            /\ ~Accepted
            /\ err'.message[1] = "Unexpected character"
C3_RootAtMostOneValue == [][C3_RootStep]_vars

\* C3 witness: the Root holds null and a second value was rejected
C3_SecondValueAfterNullRejected ==
  /\ ActionFailed
  /\ Active.kind = "Root" /\ Active.value = NullValue
  /\ err.message[1] = "Unexpected"

\* the offsets at which the matches of a sequence start
RECURSIVE StartOf(_, _)
StartOf(ms, k) == IF k = 1 THEN 0 ELSE StartOf(ms, k - 1) + Len(ms[k - 1])

\* the open brackets of a sequence of matches that no later close bracket
\* has closed, outermost first: the rule and the start offset of each
RECURSIVE Unclosed(_, _)
Unclosed(ms, n) ==
  IF n = 0 THEN <<>>
  ELSE LET before == Unclosed(ms, n - 1)
           r == RuleOf(ms[n])
       IN IF r \in {6, 7} THEN Append(before, [rule |-> r, start |-> StartOf(ms, n)])
          ELSE IF r \in {8, 9} /\ before # <<>>
               THEN SubSeq(before, 1, Len(before) - 1)
          ELSE before

\* C4: when every match was accepted and the text has ended, final() returns
\* the Root's value exactly when the Root is active and holds one; it fails
\* with "Unexpected end" when the Root holds none, which is when the text had
\* no match but white space; and with an Array or Object still active it fails
\* with "Unmatched `[`" / "Unmatched `{`" carrying the start offset of the
\* innermost open bracket that was not closed.
C4_FinalOutcome ==
  LET open == Unclosed(hist, Len(hist))
      top == open[Len(open)]
  IN /\ status = "done" =>
          /\ Active.kind = "Root" /\ Active.value # Undefined
          /\ result = Active.value
     /\ FinalFailed =>
          /\ Active.kind = "Root" =>
               /\ Active.value = Undefined
               /\ err = Error(<<"Unexpected end", "">>)
               /\ \A k \in 1..Len(hist) : RuleOf(hist[k]) = 12
          /\ Active.kind # "Root" =>
               /\ open # <<>>
               /\ err.message = <<"Unmatched", IF top.rule = 6 THEN "[" ELSE "{">>
               /\ err.index = <<top.start>>
               /\ Active.kind = IF top.rule = 6 THEN "Array" ELSE "Object"
     /\ (status = "done" \/ FinalFailed) =>
          (status = "done" <=> (Active.kind = "Root" /\ Active.value # Undefined))

\* C4 witness: the text `[` alone failed as unmatched at offset 0, and a
\* nested bracket as unmatched at its own offset
C4_UnmatchedAtOpeningOffset ==
  /\ FinalFailed
  /\ err.message[1] = "Unmatched"
  /\ Len(hist) > 1 /\ err.index # <<0>>

(***************************************************************************)
(* Values as the caller sees them: a collection with its members           *)
(***************************************************************************)
Leaf(v) ==
  [t |-> v.t, b |-> v.b, n |-> v.n, e |-> v.e, s |-> v.s, keys |-> <<>>, items |-> <<>>]
ArrayTree(items) ==
  [t |-> "array", b |-> FALSE, n |-> 0, e |-> 0, s |-> <<>>, keys |-> <<>>,
   items |-> items]
\* the object whose k-th own property is keys[k] with value items[k]
ObjectTree(keys, items) ==
  [t |-> "object", b |-> FALSE, n |-> 0, e |-> 0, s |-> <<>>, keys |-> keys,
   items |-> items]

\* the value v of heap h with the collections it refers to
RECURSIVE Resolve(_, _)
Resolve(h, v) ==
  IF v.t = "array"
  THEN ArrayTree([k \in 1..Len(h[v.ref].elems) |-> Resolve(h, h[v.ref].elems[k])])
  ELSE IF v.t = "object"
  THEN ObjectTree([k \in 1..Len(h[v.ref].props) |-> h[v.ref].props[k].k],
                  [k \in 1..Len(h[v.ref].props) |-> Resolve(h, h[v.ref].props[k].v)])
  ELSE Leaf(v)

\* structural equality (toEqual): arrays member by member in order, objects
\* key by key whatever the order of the keys
RECURSIVE StructEq(_, _)
StructEq(a, b) ==
  /\ a.t = b.t
  /\ a.t \notin {"array", "object"} => a = b
  /\ a.t = "array" =>
       /\ Len(a.items) = Len(b.items)
       /\ \A k \in 1..Len(a.items) : StructEq(a.items[k], b.items[k])
  /\ a.t = "object" =>
       /\ {a.keys[k] : k \in 1..Len(a.keys)} = {b.keys[k] : k \in 1..Len(b.keys)}
       /\ Len(a.keys) = Len(b.keys)
       /\ \A k \in 1..Len(a.keys) : \A j \in 1..Len(b.keys) :
            a.keys[k] = b.keys[j] => StructEq(a.items[k], b.items[j])

\* the text of a sequence of texts put one after the other
RECURSIVE Concat(_)
Concat(ts) == IF ts = <<>> THEN <<>> ELSE Head(ts) \o Concat(Tail(ts))

\* the decimal digits of a natural number
RECURSIVE DigitsOf(_)
DigitsOf(n) ==
  IF n < 10 THEN <<Ord["0"] + n>> ELSE Append(DigitsOf(n \div 10), Ord["0"] + (n % 10))

\* JSON.stringify of a value whose numbers are integers and whose strings
\* need no escape
RECURSIVE Stringify(_)
Stringify(v) ==
  CASE v.t = "null" -> Text(<<"n", "u", "l", "l">>)
    [] v.t = "boolean" -> IF v.b THEN Text(<<"t", "r", "u", "e">>)
                          ELSE Text(<<"f", "a", "l", "s", "e">>)
    [] v.t = "number" -> IF v.n < 0 THEN Text(<<"-">>) \o DigitsOf(0 - v.n)
                         ELSE DigitsOf(v.n)
    [] v.t = "string" -> Text(<<"\"">>) \o v.s \o Text(<<"\"">>)
    [] v.t = "array" ->
         Text(<<"[">>)
         \o Concat([k \in 1..Len(v.items) |->
                      (IF k > 1 THEN Text(<<",">>) ELSE <<>>) \o Stringify(v.items[k])])
         \o Text(<<"]">>)
    [] v.t = "object" ->
         Text(<<"{">>)
         \o Concat([k \in 1..Len(v.items) |->
                      (IF k > 1 THEN Text(<<",">>) ELSE <<>>)
                      \o Text(<<"\"">>) \o v.keys[k] \o Text(<<"\"">>) \o Text(<<":">>)
                      \o Stringify(v.items[k])])
         \o Text(<<"}">>)

(***************************************************************************)
(* SpecParse: JSON_parse on a text fixed beforehand                        *)
(***************************************************************************)
\* the values that are serialised and parsed back: those of at most MaxNodes
\* nodes (scalars and collections)
MaxNodes == 3
\* the texts of at most MaxChars characters of TextChars
MaxChars == 4
\* the string tokens whose body is at most MaxUnits of EscapeUnits
MaxUnits == 2

ScalarTrees ==
  {Leaf(NullValue), Leaf(BoolValue(TRUE)), Leaf(NumberValue(1, 0)),
   Leaf(StringValue(Text(<<"a">>)))}
KeyTexts == {Text(<<"a">>), Text(<<"b">>), PROTO}
\* the sequences of n distinct keys
KeySeqs(n) == {ks \in [1..n -> KeyTexts] : \A i, j \in 1..n : i # j => ks[i] # ks[j]}

\* the values of exactly n nodes, and the sequences of values of n nodes in all
RECURSIVE TreesOf(_), ForestsOf(_)
TreesOf(n) ==
  (IF n = 1 THEN ScalarTrees ELSE {})
  \cup {ArrayTree(f) : f \in ForestsOf(n - 1)}
  \cup UNION {{ObjectTree(ks, f) : ks \in KeySeqs(Len(f))} : f \in ForestsOf(n - 1)}
ForestsOf(n) ==
  IF n = 0 THEN {<<>>}
  ELSE UNION {{<<t>> \o f : t \in TreesOf(k), f \in ForestsOf(n - k)} : k \in 1..n}

TestValues == UNION {TreesOf(n) : n \in 1..MaxNodes}
Serialized == {[text |-> Stringify(v), value |-> v] : v \in TestValues}

TextChars == {Ord["["], Ord["]"], Ord["1"], Ord["\n"], Ord["\r"], Ord["\""], Ord["\\"]}
ShortTexts == UNION {[1..n -> TextChars] : n \in 0..MaxChars}

\* string tokens: \u followed by up to five characters, and sequences of
\* escape sequences and plain characters
HexChars == {Ord["4"], Ord["a"], Ord["F"], Ord["G"]}
UnicodeTokens ==
  {Text(<<"\"", "\\", "u">>) \o h \o Text(<<"\"">>) :
     h \in UNION {[1..n -> HexChars] : n \in 0..5}}
EscapeUnits ==
  {Text(<<"\\", c>>) : c \in {"b", "f", "n", "r", "t", "\"", "/", "\\", "x", "u"}}
  \cup {Text(<<"u">>), Text(<<"\\", "u", "0", "0", "4", "1">>)}
EscapeTokens ==
  {Text(<<"\"">>) \o Concat(us) \o Text(<<"\"">>) :
     us \in UNION {[1..n -> EscapeUnits] : n \in 0..MaxUnits}}

Texts ==
  {p.text : p \in Serialized} \cup ShortTexts \cup UnicodeTokens \cup EscapeTokens

\* the scanner yields its next match
Scan ==
  /\ status = "scanning"
  /\ NextMatch(content, lastIndex).found
  /\ Match(NextMatch(content, lastIndex).rule, NextMatch(content, lastIndex).matched,
           content)
  /\ content' = content
  /\ UNCHANGED <<re, outer, calls>>

\* the scanner finds no further match
Stop ==
  /\ status = "scanning"
  /\ ~NextMatch(content, lastIndex).found
  /\ ScanEnd(content)
  /\ content' = content
  /\ UNCHANGED <<re, outer, calls>>

InitParse ==
  /\ ctxs = <<NewRootContext>>
  /\ cur = 1
  /\ hist = <<>>
  /\ index = <<>>
  /\ lastIndex = 0
  /\ status = "scanning"
  /\ err = NoError
  /\ result = Undefined
  /\ content \in Texts
  /\ caught = NoError
  /\ info = NoInfo
  /\ re = 0
  /\ outer = <<>>
  /\ calls = <<>>

NextParse == Scan \/ Stop \/ CallFinal

SpecParse == InitParse /\ [][NextParse]_vars

\* C5: a value of null, booleans, numbers, strings, arrays and string-keyed
\* objects comes back structurally equal from its serialisation: the parse
\* does not fail and final() returns an equal value.
C5_RoundTrip ==
  \A p \in Serialized :
    content = p.text =>
      /\ status # "failed"
      /\ status = "done" => StructEq(Resolve(ctxs, result), p.value)

\* C5, supplement: the values none of whose objects has the key "__proto__"
\* do come back structurally equal.
C5_RoundTripOtherKeys ==
  \A p \in Serialized :
    (content = p.text /\ \A k \in 1..Len(content) - Len(PROTO) :
                           Slice(content, k, k + Len(PROTO)) # PROTO) =>
      /\ status # "failed"
      /\ status = "done" => StructEq(Resolve(ctxs, result), p.value)

\* what JSON_parse makes of the matches ms from the k-th on, in heap h with
\* active context c, the k-th match starting at offset off: the loop of parse
\* followed by final()
RECURSIVE RunFrom(_, _, _, _, _)
RunFrom(ms, k, h, c, off) ==
  IF k > Len(ms)
  THEN [status |-> IF final(h, c).ok THEN "done" ELSE "failed",
        value |-> Resolve(h, final(h, c).value)]
  ELSE IF RuleAction(RuleOf(ms[k]), ms[k], h, c, off).ok
       THEN RunFrom(ms, k + 1, RuleAction(RuleOf(ms[k]), ms[k], h, c, off).h,
                    RuleAction(RuleOf(ms[k]), ms[k], h, c, off).ret, off + Len(ms[k]))
       ELSE [status |-> "failed", value |-> Leaf(Undefined)]

\* the matches of a sequence that are not white space
WithoutWhiteSpace(ms) == SelectSeq(ms, LAMBDA m : RuleOf(m) # 12)

\* C6: a white space match leaves every context and the active context as
\* they are; so the outcome of JSON_parse (success or failure, and the value)
\* is that of the same matches with all white space matches removed.
C6_WhiteSpaceStep ==
  (hist' # hist /\ RuleOf(hist'[Len(hist')]) = 12) =>
     /\ ctxs' = ctxs /\ cur' = cur /\ status' = "scanning"
C6_Outcome ==
  status \in {"done", "failed"} =>
     RunFrom(WithoutWhiteSpace(hist), 1, <<NewRootContext>>, 1, 0)
       = [status |-> status, value |-> Resolve(ctxs, result)]
C6_WhiteSpaceIgnored == [][C6_WhiteSpaceStep]_vars /\ []C6_Outcome

\* C6 witness: a text with white space before the first, between two and
\* after the last of its other matches was parsed to a value
C6_ParsedWithWhiteSpace ==
  /\ status = "done"
  /\ Len(hist) >= 5
  /\ RuleOf(hist[1]) = 12 /\ RuleOf(hist[3]) = 12 /\ RuleOf(hist[Len(hist)]) = 12

\* the text has a carriage return that no line feed follows
HasLoneCR(s) ==
  \E k \in 1..Len(s) : s[k] = Ord["\r"] /\ (k = Len(s) \/ s[k + 1] # Ord["\n"])
\* the number of lines that end before offset `at` of s
LinesBefore(s, at) == Cardinality({k \in 1..at : s[k] = Ord["\n"]})
\* the offset at which the line holding offset `at` of s starts
LineStartOf(s, at) ==
  IF LinesBefore(s, at) = 0 THEN 0
  ELSE CHOOSE k \in 1..at : s[k] = Ord["\n"] /\ \A j \in (k + 1)..at : s[j] # Ord["\n"]
\* the offset at which the content of the line starting at `from` ends
LineEndOf(s, from) ==
  CHOOSE e \in from..Len(s) :
    /\ \A j \in (from + 1)..e : s[j] \notin {Ord["\r"], Ord["\n"]}
    /\ e = Len(s) \/ s[e + 1] \in {Ord["\r"], Ord["\n"]}

\* C7: the line information of a failure is that of the line holding the
\* failing offset: the 1-based number of that line, the offset minus the
\* offset at which that line starts (0 for the first character of a line)
\* and the text of that line, for a text whose lines end in LF or CR LF.
C7_LineOfOffset ==
  (info.called /\ ~HasLoneCR(content)) =>
     /\ info.ok
     /\ info.lineNo = LinesBefore(content, info.at) + 1
     /\ info.columnNo = info.at - LineStartOf(content, info.at)
     /\ info.line = Slice(content, LineStartOf(content, info.at),
                          LineEndOf(content, LineStartOf(content, info.at)))

\* C7, supplement: the line information is right whenever the failing offset
\* is not the first of a line after the first.
C7_LineOfOffsetWithinLine ==
  (info.called /\ ~HasLoneCR(content)
     /\ (info.at = 0 \/ CharAt(content, info.at - 1) # Ord["\n"])) =>
     /\ info.ok
     /\ info.lineNo = LinesBefore(content, info.at) + 1
     /\ info.columnNo = info.at - LineStartOf(content, info.at)
     /\ info.line = Slice(content, LineStartOf(content, info.at),
                          LineEndOf(content, LineStartOf(content, info.at)))

\* C8: an "Unexpected escape sequence" carries the offset in the text of the
\* backslash that begins the escape: an offset inside the string match, the
\* opening quote counted, at which the text has a backslash.
C8_EscapeErrorAtBackslash ==
  (info.called /\ caught.message[1] = "Unexpected escape sequence") =>
     /\ caught.index # <<>> /\ index # <<>>
     /\ index[1] < caught.index[1] /\ caught.index[1] < lastIndex
     /\ CharAt(content, caught.index[1]) = Ord["\\"]

\* C8, supplement: the offset carried is that of the character before the
\* backslash of the first escape that is not accepted.
C8_EscapeErrorBeforeBackslash ==
  (info.called /\ caught.message[1] = "Unexpected escape sequence") =>
     /\ caught.index # <<>> /\ index # <<>>
     /\ index[1] <= caught.index[1] /\ caught.index[1] + 1 < lastIndex
     /\ CharAt(content, caught.index[1] + 1) = Ord["\\"]

\* the escape sequences of two characters and the character each stands for
FixedEscapes ==
  {<<Ord["b"], 8>>, <<Ord["f"], 12>>, <<Ord["n"], 10>>, <<Ord["r"], 13>>,
   <<Ord["t"], 9>>, <<Ord["\""], 34>>, <<Ord["/"], 47>>, <<Ord["\\"], 92>>}
HexDigitValues ==
  {<<48 + d, d>> : d \in 0..9} \cup {<<97 + d, 10 + d>> : d \in 0..5}
    \cup {<<65 + d, 10 + d>> : d \in 0..5}
HexDigitValue(c) == (CHOOSE e \in HexDigitValues : e[1] = c)[2]
IsHexDigit(c) == \E e \in HexDigitValues : e[1] = c
\* character c followed by the decoded text r
Cons(c, r) == IF r.ok THEN [ok |-> TRUE, s |-> <<c>> \o r.s] ELSE r
\* the body of a string match from its p-th character on, decoded: a
\* backslash begins an escape sequence, which is one of FixedEscapes or \u and
\* four hexadecimal digits; ok is FALSE if it is neither
RECURSIVE Unescape(_, _)
Unescape(body, p) ==
  IF p > Len(body) THEN [ok |-> TRUE, s |-> <<>>]
  ELSE IF body[p] # Ord["\\"] THEN Cons(body[p], Unescape(body, p + 1))
  ELSE IF p = Len(body) THEN [ok |-> FALSE, s |-> <<>>]
  ELSE IF body[p + 1] = Ord["u"]
  THEN IF p + 5 <= Len(body) /\ \A k \in 2..5 : IsHexDigit(body[p + k])
       THEN Cons(4096 * HexDigitValue(body[p + 2]) + 256 * HexDigitValue(body[p + 3])
                   + 16 * HexDigitValue(body[p + 4]) + HexDigitValue(body[p + 5]),
                 Unescape(body, p + 6))
       ELSE [ok |-> FALSE, s |-> <<>>]
  ELSE IF \E e \in FixedEscapes : e[1] = body[p + 1]
  THEN Cons((CHOOSE e \in FixedEscapes : e[1] = body[p + 1])[2], Unescape(body, p + 2))
  ELSE [ok |-> FALSE, s |-> <<>>]

\* C9: the string match that is the first match of a text is decoded thus:
\* \b \f \n \r \t \" \/ \\ stand for their characters, \u and exactly four
\* hexadecimal digits for that code unit, every other character for itself,
\* escapes being read from left to right (so \\u is a backslash and a u); a
\* match with any other escape is rejected with "Unexpected escape sequence",
\* and otherwise the Root holds the decoded string.
C9_EscapesDecoded ==
  (hist # <<>> /\ RuleOf(hist[1]) = 5) =>
     IF Unescape(Slice(hist[1], 1, Len(hist[1]) - 1), 1).ok
     THEN ctxs[1].value =
            StringValue(Unescape(Slice(hist[1], 1, Len(hist[1]) - 1), 1).s)
     ELSE /\ status = "failed" /\ Len(hist) = 1
          /\ caught.message[1] = "Unexpected escape sequence"

\* C9 witness: the text "\\u" was parsed to the string of a backslash and u
C9_EscapedBackslashThenU ==
  /\ content = Text(<<"\"", "\\", "\\", "u", "\"">>)
  /\ status = "done"
  /\ result = StringValue(Text(<<"\\", "u">>))

\* the offset at which the last match of ms starts
LastMatchStart(ms) == StartOf(ms, Len(ms))

\* C10: the offset a failure of parse is reported at is the offset the error
\* carries when it carries one (0 included); for an error that carries none,
\* the rejection of a value or of a punctuation character, it is the offset at
\* which the rejected match starts.  The scan has a current match whenever an
\* error carries no offset, so that the offset the scan reached is never used
\* for such an error.
C10_ReportedOffset ==
  info.called =>
     IF caught.name = "IndexedError"
     THEN caught.index # <<>> /\ info.at = caught.index[1]
     ELSE /\ caught.message[1] \in {"Unexpected", "Unexpected character"}
          /\ hist # <<>> /\ info.at = LastMatchStart(hist)

\* C10 witness: an error carrying an offset other than the start of the match
\* being processed was reported, at the offset it carries
C10_CarriedOffsetReported ==
  /\ info.called /\ index # <<>>
  /\ caught.index # <<>> /\ caught.index # index
  /\ info.at = caught.index[1]

\* C10 witness: a rejection carrying no offset was reported at the start of a
\* match that is not the first
C10_RejectionAtMatchStart ==
  /\ info.called /\ caught.index = <<>>
  /\ Len(hist) > 1 /\ info.at = LastMatchStart(hist) /\ info.at > 0

\* the actions of the matches ms from the k-th on, run in heap h with active
\* context c, the k-th match starting at offset off: whether all of them
\* returned, and the heap and the active context they leave
RECURSIVE ActionsFrom(_, _, _, _, _)
ActionsFrom(ms, k, h, c, off) ==
  IF k > Len(ms) THEN [ok |-> TRUE, h |-> h, c |-> c]
  ELSE IF RuleAction(RuleOf(ms[k]), ms[k], h, c, off).ok
       THEN ActionsFrom(ms, k + 1, RuleAction(RuleOf(ms[k]), ms[k], h, c, off).h,
                        RuleAction(RuleOf(ms[k]), ms[k], h, c, off).ret,
                        off + Len(ms[k]))
       ELSE [ok |-> FALSE, h |-> h, c |-> c]
\* parse has returned or thrown
ParseEnded == status \in {"parsed", "done", "failed"}
\* the scanner stopped after the matches of hist, before the end of the text
StoppedShort ==
  /\ Len(Concat(hist)) < Len(content)
  /\ Concat(hist) = SubSeq(content, 1, Len(Concat(hist)))
  /\ ~NextMatch(content, Len(Concat(hist))).found

\* parse threw an error with this description
FailsWith(description) == info.called /\ err.message[1] = description

\* C11: parse fails with "Unrecognized token" exactly when the action of
\* every match returned and the scanner stopped before the end of the text,
\* and the error carries, and is reported at, the offset at which the scanner
\* stopped; when the matches cover the whole text and every action returned,
\* parse returns the active context the actions left.
C11_UnrecognizedToken ==
  ParseEnded =>
     /\ FailsWith("Unrecognized token")
          <=> (ActionsFrom(hist, 1, <<NewRootContext>>, 1, 0).ok /\ StoppedShort)
     /\ FailsWith("Unrecognized token") =>
           /\ status = "failed"
           /\ caught.index = <<Len(Concat(hist))>>
           /\ info.at = Len(Concat(hist))
     /\ (ActionsFrom(hist, 1, <<NewRootContext>>, 1, 0).ok
           /\ Concat(hist) = content) =>
           /\ caught = NoError /\ ~info.called
           /\ cur = ActionsFrom(hist, 1, <<NewRootContext>>, 1, 0).c
           /\ ctxs = ActionsFrom(hist, 1, <<NewRootContext>>, 1, 0).h

\* C11, supplement: the same of the error that the loop, or the test after
\* it, throws and the catch block catches.
C11_UnrecognizedTokenThrown ==
  ParseEnded =>
     /\ (caught.message[1] = "Unrecognized token")
          <=> (ActionsFrom(hist, 1, <<NewRootContext>>, 1, 0).ok /\ StoppedShort)
     /\ (caught.message[1] = "Unrecognized token") =>
           /\ status = "failed" /\ info.called
           /\ caught.index = <<Len(Concat(hist))>>
           /\ info.at = Len(Concat(hist))
     /\ (ActionsFrom(hist, 1, <<NewRootContext>>, 1, 0).ok
           /\ Concat(hist) = content) =>
           /\ caught = NoError /\ ~info.called
           /\ cur = ActionsFrom(hist, 1, <<NewRootContext>>, 1, 0).c
           /\ ctxs = ActionsFrom(hist, 1, <<NewRootContext>>, 1, 0).h

(***************************************************************************)
(* SpecRules: a Parser constructed with a rule table whose patterns        *)
(* overlap, /ab/ /a/ /abc/ /b/ /bc/, each bound to an action that appends  *)
(* its three arguments to the context; parse is given the empty context.   *)
(***************************************************************************)
RuleTable ==
  <<Text(<<"a", "b">>), Text(<<"a">>), Text(<<"a", "b", "c">>), Text(<<"b">>),
    Text(<<"b", "c">>)>>
\* the texts of at most MaxRuleChars characters of a, b and c
MaxRuleChars == 4
RuleTexts == UNION {[1..n -> {Ord["a"], Ord["b"], Ord["c"]}] : n \in 0..MaxRuleChars}

\* mutant: the alternative with the longest match wins
FirstAlternative_Longest(table, s, i) ==
  LET able == {r \in 1..Len(table) : MatchLiteral(table[r], s, i) >= 0}
  IN IF able = {} THEN [found |-> FALSE, rule |-> 0, matched |-> <<>>]
     ELSE LET r == CHOOSE x \in able : \A y \in able : Len(table[x]) >= Len(table[y])
          IN [found |-> TRUE, rule |-> r, matched |-> table[r]]

\* the pattern the constructor compiles, (?<pattern1>..)|(?<pattern2>..)|..
\* with flags gy, at offset i of s: the first alternative that matches there,
\* and the group that took part names its rule
FirstAlternative(table, s, i) ==
  LET able == {r \in 1..Len(table) : MatchLiteral(table[r], s, i) >= 0}
  IN IF able = {} THEN [found |-> FALSE, rule |-> 0, matched |-> <<>>]
     ELSE LET r == CHOOSE x \in able : \A y \in able : x <= y
          IN [found |-> TRUE, rule |-> r, matched |-> table[r]]

\* the action bound to rule r: (matched, context, index) => [...context, ..]
LogAction(r, matched, context, i) ==
  Append(context, [rule |-> r, matched |-> matched, index |-> i])

\* context = action(matched, context, index) for the scanner's next match
ScanRules ==
  /\ status = "scanning"
  /\ FirstAlternative(RuleTable, content, lastIndex).found
  /\ hist' = Append(hist, FirstAlternative(RuleTable, content, lastIndex).matched)
  /\ index' = <<lastIndex>>
  /\ lastIndex' = lastIndex + Len(FirstAlternative(RuleTable, content, lastIndex).matched)
  /\ cur' = LogAction(FirstAlternative(RuleTable, content, lastIndex).rule,
                      FirstAlternative(RuleTable, content, lastIndex).matched,
                      cur, lastIndex)
  /\ UNCHANGED <<ctxs, status, err, result, content, caught, info, re, outer, calls>>

StopRules ==
  /\ status = "scanning"
  /\ ~FirstAlternative(RuleTable, content, lastIndex).found
  /\ ScanEnd(content)
  /\ content' = content
  /\ UNCHANGED <<re, outer, calls>>

InitRules ==
  /\ ctxs = <<>>
  /\ cur = <<>>
  /\ hist = <<>>
  /\ index = <<>>
  /\ lastIndex = 0
  /\ status = "scanning"
  /\ err = NoError
  /\ result = Undefined
  /\ content \in RuleTexts
  /\ caught = NoError
  /\ info = NoInfo
  /\ re = 0
  /\ outer = <<>>
  /\ calls = <<>>

NextRules == ScanRules \/ StopRules

SpecRules == InitRules /\ [][NextRules]_vars

\* the pattern of rule r of the table matches at offset i of s
CanMatch(r, s, i) ==
  i + Len(RuleTable[r]) <= Len(s)
    /\ \A k \in 1..Len(RuleTable[r]) : s[i + k] = RuleTable[r][k]

\* C12: a step of the scan invokes one action, that of the first rule of the
\* table whose pattern matches at the offset the scan has reached, whatever a
\* later rule would match there; the action is given the matched text, the
\* context the previous action returned and the offset at which the match
\* starts, and the context it returns is the one the next action is given.
C12_Step ==
  hist' # hist =>
     \E r \in 1..Len(RuleTable) :
        /\ CanMatch(r, content, lastIndex)
        /\ \A q \in 1..(r - 1) : ~CanMatch(q, content, lastIndex)
        /\ hist' = Append(hist, RuleTable[r])
        /\ cur' = Append(cur, [rule |-> r, matched |-> RuleTable[r],
                               index |-> lastIndex])
        /\ lastIndex = Len(Concat(hist))
C12_FirstRuleWins == [][C12_Step]_vars

\* C12 witness: the second action invoked was that of /ab/, at an offset where
\* the later rule /abc/ matches a longer text, and was given the context the
\* first action returned
C12_FirstRuleBeatsLonger ==
  /\ Len(cur) = 2 /\ cur[2].rule = 1 /\ cur[2].index = cur[1].index + Len(cur[1].matched)
  /\ CanMatch(3, content, cur[2].index)

\* the matches of the combined pattern in s from offset i on, whatever the
\* actions do
RECURSIVE LexFrom(_, _)
LexFrom(s, i) ==
  IF NextMatch(s, i).found
  THEN <<NextMatch(s, i).matched>> \o LexFrom(s, i + Len(NextMatch(s, i).matched))
  ELSE <<>>
\* the first of the matches ms, from the k-th on, whose action throws, and the
\* error it throws; at is 0 if none does
RECURSIVE FirstFailure(_, _, _, _, _)
FirstFailure(ms, k, h, c, off) ==
  IF k > Len(ms) THEN [at |-> 0, err |-> NoError]
  ELSE IF RuleAction(RuleOf(ms[k]), ms[k], h, c, off).ok
       THEN FirstFailure(ms, k + 1, RuleAction(RuleOf(ms[k]), ms[k], h, c, off).h,
                         RuleAction(RuleOf(ms[k]), ms[k], h, c, off).ret,
                         off + Len(ms[k]))
       ELSE [at |-> k, err |-> RuleAction(RuleOf(ms[k]), ms[k], h, c, off).err]

\* C13: no step follows a failure, and a text one of whose matches has an
\* action that throws ends in the failure of the leftmost such match: the
\* matches processed are those up to it, the error reported is the one its
\* action threw, and there is no result, whatever follows that match in the
\* text (a character no rule matches, brackets left open).
C13_NoStepAfterFailure == status # "failed"
C13_LeftmostFailure ==
  (status \in {"done", "failed"}
     /\ FirstFailure(LexFrom(content, 0), 1, <<NewRootContext>>, 1, 0).at > 0) =>
       /\ status = "failed" /\ result = Undefined
       /\ hist = SubSeq(LexFrom(content, 0), 1,
                        FirstFailure(LexFrom(content, 0), 1, <<NewRootContext>>, 1, 0).at)
       /\ err.message =
            FirstFailure(LexFrom(content, 0), 1, <<NewRootContext>>, 1, 0).err.message
C13_FailFast == [][C13_NoStepAfterFailure]_vars /\ []C13_LeftmostFailure

\* C13, supplement: no step follows a failure, the matches processed are those
\* up to the leftmost whose action throws, there is no result, and the error
\* the catch block catches is the one that action threw.
C13_LeftmostCaught ==
  (status \in {"done", "failed"}
     /\ FirstFailure(LexFrom(content, 0), 1, <<NewRootContext>>, 1, 0).at > 0) =>
       /\ status = "failed" /\ result = Undefined
       /\ hist = SubSeq(LexFrom(content, 0), 1,
                        FirstFailure(LexFrom(content, 0), 1, <<NewRootContext>>, 1, 0).at)
       /\ caught = FirstFailure(LexFrom(content, 0), 1, <<NewRootContext>>, 1, 0).err
C13_FailFastCaught == [][C13_NoStepAfterFailure]_vars /\ []C13_LeftmostCaught

(***************************************************************************)
(* SpecReuse: calls of JSON_parse one after another on the one jsonParser, *)
(* and calls made while the action of a match of another call is running.  *)
(* The compiled pattern this.re has the flags gy, so that matching with it *)
(* reads and writes its lastIndex, which every call shares.                *)
(***************************************************************************)
\* calls of JSON_parse in all, and calls waiting at a time
MaxCalls == 3
MaxNesting == 1
ReuseTexts ==
  {Text(<<"[", "1", "]">>), Text(<<"1", " ", "]">>), Text(<<"[">>),
   Text(<<"1", "\"">>), Text(<<>>)}

\* mutant: the scanner seeks its next match where the pattern's lastIndex is
ScanFrom_RegExpLastIndex(gLastIndex, reLastIndex) == reLastIndex

\* the offset at which the scanner seeks its next match: the offset it has
\* reached itself, whatever lastIndex the pattern was left with
ScanFrom(gLastIndex, reLastIndex) == gLastIndex

\* the scanner yields its next match; the pattern's lastIndex is its end
ScanCall ==
  /\ status = "scanning"
  /\ NextMatch(content, ScanFrom(lastIndex, re)).found
  /\ MatchAt(ScanFrom(lastIndex, re),
             NextMatch(content, ScanFrom(lastIndex, re)).rule,
             NextMatch(content, ScanFrom(lastIndex, re)).matched, content)
  /\ re' = ScanFrom(lastIndex, re)
             + Len(NextMatch(content, ScanFrom(lastIndex, re)).matched)
  /\ UNCHANGED <<content, outer, calls>>

\* the scanner finds no further match; a failed match sets lastIndex to 0
StopCall ==
  /\ status = "scanning"
  /\ ~NextMatch(content, ScanFrom(lastIndex, re)).found
  /\ ScanEnd(content)
  /\ re' = 0
  /\ UNCHANGED <<content, outer, calls>>

\* a call of JSON_parse(text) begins: new RootContext(), scan(this.re, text)
BeginCall(text) ==
  /\ ctxs' = <<NewRootContext>>
  /\ cur' = 1
  /\ hist' = <<>>
  /\ index' = <<>>
  /\ lastIndex' = 0
  /\ status' = "scanning"
  /\ err' = NoError
  /\ result' = Undefined
  /\ content' = text
  /\ caught' = NoError
  /\ info' = NoInfo

\* the next call, after the previous one has returned or thrown
NextCall ==
  /\ status \in {"done", "failed"}
  /\ outer = <<>>
  /\ Len(calls) + 1 < MaxCalls
  /\ \E text \in ReuseTexts : BeginCall(text)
  /\ calls' = Append(calls, [content |-> content, status |-> status, depth |-> 0])
  /\ UNCHANGED <<re, outer>>

\* the action of the last match calls JSON_parse before it returns
NestedCall ==
  /\ status = "scanning"
  /\ hist # <<>>
  /\ Len(outer) < MaxNesting
  /\ Len(calls) + Len(outer) + 1 < MaxCalls
  /\ \E text \in ReuseTexts : BeginCall(text)
  /\ outer' = Append(outer, [ctxs |-> ctxs, cur |-> cur, hist |-> hist,
                             index |-> index, lastIndex |-> lastIndex,
                             content |-> content])
  /\ UNCHANGED <<re, calls>>

\* the call an action made has returned or thrown, and the action returns
NestedReturn ==
  /\ status \in {"done", "failed"}
  /\ outer # <<>>
  /\ ctxs' = outer[Len(outer)].ctxs
  /\ cur' = outer[Len(outer)].cur
  /\ hist' = outer[Len(outer)].hist
  /\ index' = outer[Len(outer)].index
  /\ lastIndex' = outer[Len(outer)].lastIndex
  /\ content' = outer[Len(outer)].content
  /\ status' = "scanning"
  /\ err' = NoError
  /\ result' = Undefined
  /\ caught' = NoError
  /\ info' = NoInfo
  /\ outer' = SubSeq(outer, 1, Len(outer) - 1)
  /\ calls' = Append(calls, [content |-> content, status |-> status,
                             depth |-> Len(outer)])
  /\ re' = re

InitReuse ==
  /\ ctxs = <<NewRootContext>>
  /\ cur = 1
  /\ hist = <<>>
  /\ index = <<>>
  /\ lastIndex = 0
  /\ status = "scanning"
  /\ err = NoError
  /\ result = Undefined
  /\ content \in ReuseTexts
  /\ caught = NoError
  /\ info = NoInfo
  /\ re = 0
  /\ outer = <<>>
  /\ calls = <<>>

NextReuse ==
  ScanCall \/ StopCall \/ CallFinal \/ NextCall \/ NestedCall \/ NestedReturn

SpecReuse == InitReuse /\ [][NextReuse]_vars

\* what the call in progress has come to: value or failure, the error thrown
\* and the offset of the failure
Outcome ==
  [status |-> status, value |-> Resolve(ctxs, result), err |-> err,
   at |-> IF info.called THEN <<info.at>> ELSE err.index]
\* what JSON_parse makes of text s when nothing else has used the Parser
OutcomeOf(s) ==
  LET ms == LexFrom(s, 0)
      ff == FirstFailure(ms, 1, <<NewRootContext>>, 1, 0)
      af == ActionsFrom(ms, 1, <<NewRootContext>>, 1, 0)
      end == Len(Concat(ms))
  IN IF ff.at > 0
     THEN [status |-> "failed", value |-> Leaf(Undefined),
           err |-> Caught(ff.err, <<StartOf(ms, ff.at)>>,
                          StartOf(ms, ff.at + 1), s).err,
           at |-> <<ErrorOffset(ff.err, <<StartOf(ms, ff.at)>>,
                                StartOf(ms, ff.at + 1))>>]
     ELSE IF end < Len(s)
     THEN [status |-> "failed", value |-> Leaf(Undefined),
           err |-> Caught(IndexedError(end, <<"Unrecognized token", "">>),
                          <<>>, end, s).err,
           at |-> <<end>>]
     ELSE [status |-> IF final(af.h, af.c).ok THEN "done" ELSE "failed",
           value |-> Resolve(af.h, final(af.h, af.c).value),
           err |-> final(af.h, af.c).err,
           at |-> final(af.h, af.c).err.index]

\* C14: every call of JSON_parse on the one Parser comes to what its own text
\* alone determines, value or failure, error and offset: whatever calls came
\* before it, ended however they did, and whatever call an action made while
\* it was in progress; and a call that is resumed has its matches intact.
C14_Reusable ==
  /\ status \in {"done", "failed"} => Outcome = OutcomeOf(content)
  /\ \A i \in 1..Len(calls) :
       calls[i].status = OutcomeOf(calls[i].content).status
  /\ hist = SubSeq(LexFrom(content, 0), 1, Len(hist))

\* C14 witness: a call returned a value after an action of it had made a call
\* that failed at a match, and after an earlier call had failed at a match
C14_ValueAfterFailedCalls ==
  /\ status = "done" /\ outer = <<>> /\ Len(hist) = 3
  /\ Len(calls) = 2
  /\ calls[1].depth = 0 /\ calls[1].content = Text(<<"1", " ", "]">>)
  /\ calls[2].depth = 1 /\ calls[2].content = Text(<<"1", " ", "]">>)

\* the active context takes a value that is not a string
TakesCollection ==
  CASE Active.kind = "Root" -> Active.value = Undefined
    [] Active.kind = "Array" -> Active.state \in {"INITIAL", "COMMA"}
    [] Active.kind = "Object" -> Active.state = "COLON"

\* C15: at a `[` or `{` the new collection is offered to the active context.
\* If that context takes a value, the collection is recorded in it (as the
\* Root's value, as the next element of the array, as the value of the
\* pending name) and a new context of the bracket's kind, empty, in state
\* INITIAL, with the active context to return to and the bracket's offset,
\* becomes active.  If it does not, the parse fails as "Unexpected array" or
\* "Unexpected object" at the bracket's offset, no context is created and
\* the active context stays as it is.
C15_Step ==
  (hist' # hist /\ RuleOf(hist'[Len(hist')]) \in {6, 7}) =>
    LET r == RuleOf(hist'[Len(hist')])
        new == Len(ctxs) + 1
        v == IF r = 6 THEN ArrayValue(new) ELSE ObjectValue(new)
    IN IF TakesCollection
       THEN /\ status' = "scanning"
            /\ Len(ctxs') = new /\ cur' = new
            /\ ctxs'[new].kind = (IF r = 6 THEN "Array" ELSE "Object")
            /\ ctxs'[new].state = "INITIAL"
            /\ ctxs'[new].elems = <<>> /\ ctxs'[new].props = <<>>
            /\ ctxs'[new].name = Undefined
            /\ ctxs'[new].save = cur /\ ctxs'[new].start = lastIndex
            /\ \A j \in 1..Len(ctxs) : j # cur => ctxs'[j] = ctxs[j]
            /\ CASE Active.kind = "Root" -> ctxs'[cur].value = v
                 [] Active.kind = "Array" ->
                      /\ ctxs'[cur].elems = Append(Active.elems, v)
                      /\ ctxs'[cur].state = "VALUE"
                 [] Active.kind = "Object" ->
                      /\ \E i \in 1..Len(ctxs'[cur].props) :
                           ctxs'[cur].props[i] = [k |-> Active.name.s, v |-> v]
                      /\ ctxs'[cur].state = "VALUE"
                      /\ ctxs'[cur].name = Undefined
       ELSE /\ status' = "failed"
            /\ err'.message = <<"Unexpected", IF r = 6 THEN "array" ELSE "object">>
            /\ info'.called /\ info'.at = lastIndex
            /\ cur' = cur /\ ctxs' = ctxs
AcceptedMatches ==
  IF ActionFailed THEN SubSeq(hist, 1, Len(hist) - 1) ELSE hist

\* the number of the matches of ms that one of the rules yields
CountRules(ms, rules) ==
  Cardinality({k \in 1..Len(ms) : RuleOf(ms[k]) \in rules})

\* following the contexts to return to from c leads to the Root within n steps
RECURSIVE EndsAtRoot(_, _, _)
EndsAtRoot(h, c, n) ==
  \/ h[c].kind = "Root"
  \/ /\ n > 0 /\ h[c].save \in 1..Len(h)
     /\ EndsAtRoot(h, h[c].save, n - 1)

\* the number of contexts between c and the Root, c included
RECURSIVE ChainLength(_, _)
ChainLength(h, c) ==
  IF h[c].kind = "Root" THEN 0 ELSE 1 + ChainLength(h, h[c].save)

\* the positions in ms of the open brackets among the first n matches that no
\* later close bracket among them has closed, outermost first
RECURSIVE OpenAt(_, _)
OpenAt(ms, n) ==
  IF n = 0 THEN <<>>
  ELSE IF RuleOf(ms[n]) \in {6, 7} THEN Append(OpenAt(ms, n - 1), n)
  ELSE IF RuleOf(ms[n]) \in {8, 9} /\ OpenAt(ms, n - 1) # <<>>
       THEN SubSeq(OpenAt(ms, n - 1), 1, Len(OpenAt(ms, n - 1)) - 1)
  ELSE OpenAt(ms, n - 1)

\* the context that is active after the first n matches of the accepted
\* sequence ms: the Root, or the context of the innermost unclosed bracket
\* (the k-th open bracket creates context k + 1)
ActiveAfter(ms, n) ==
  IF OpenAt(ms, n) = <<>> THEN 1
  ELSE 1 + CountRules(SubSeq(ms, 1, OpenAt(ms, n)[Len(OpenAt(ms, n))]), {6, 7})

\* C16 (states): after the accepted matches the contexts to return to lead
\* from the active context to the Root, as many of them as open brackets were
\* accepted less close brackets accepted, and the Root is active exactly when
\* no bracket is left unclosed.
C16_Chain ==
  /\ EndsAtRoot(ctxs, cur, Len(ctxs))
  /\ ChainLength(ctxs, cur) =
       CountRules(AcceptedMatches, {6, 7}) - CountRules(AcceptedMatches, {8, 9})
  /\ Active.kind = "Root" <=> OpenAt(AcceptedMatches, Len(AcceptedMatches)) = <<>>
  /\ Active.kind = "Root" <=> cur = 1

\* C16 (steps): an accepted `]` or `}` found an active context of its own
\* kind, shortens the chain by one, and makes active the context that was
\* active before the bracket it closes.
C16_Step ==
  (Accepted /\ RuleOf(hist'[Len(hist')]) \in {8, 9}) =>
    LET r == RuleOf(hist'[Len(hist')])
        open == OpenAt(hist, Len(hist))
    IN /\ Active.kind = (IF r = 8 THEN "Array" ELSE "Object")
       /\ open # <<>>
       /\ RuleOf(hist[open[Len(open)]]) = r - 2
       /\ cur' = ActiveAfter(hist, open[Len(open)] - 1)
       /\ cur' = Active.save
       /\ ChainLength(ctxs', cur') = ChainLength(ctxs, cur) - 1

\* C16: the chain of contexts mirrors the nesting of the accepted brackets
C16_NestingDepth == []C16_Chain /\ [][C16_Step]_vars

\* C16 witness: `}` closed an object inside an array that is inside an array,
\* and the inner array is active again
C16_PoppedToInnerArray ==
  /\ status = "scanning" /\ hist # <<>>
  /\ RuleOf(hist[Len(hist)]) = 9
  /\ Len(ctxs) = 4 /\ cur = 3 /\ Active.kind = "Array"
  /\ ChainLength(ctxs, cur) = 2

(***************************************************************************)
(* SpecParseFair: SpecParse with the loop of parse and the call of final() *)
(* carried on while there is a step to take; parse is sequential code that *)
(* nothing suspends.  A step of NextParse is possible exactly while        *)
(* JSON_parse has not ended (Scan or Stop while scanning, CallFinal once   *)
(* parse has returned), so the weak fairness of NextParse is written with  *)
(* that condition in the place of ENABLED <<NextParse>>_vars.              *)
(***************************************************************************)
\* JSON_parse has returned or thrown
Ended == status \in {"done", "failed"}

SpecParseFair ==
  /\ InitParse /\ [][NextParse]_vars
  /\ ([]<>Ended \/ []<><<NextParse>>_vars)

\* C17 (steps): every match is a non-empty piece of the text that starts where
\* the previous match ended (the first at offset 0), so that each start offset
\* is greater than the one before.
C17_Match ==
  hist' # hist =>
    LET m == hist'[Len(hist')]
    IN /\ Len(hist') = Len(hist) + 1
       /\ Len(m) > 0
       /\ index' = <<lastIndex>>
       /\ lastIndex' = lastIndex + Len(m)
       /\ lastIndex' <= Len(content)
       /\ m = Slice(content, lastIndex, lastIndex')
       /\ hist = <<>> => lastIndex = 0
       /\ index # <<>> => index'[1] > index[1]

\* C17 (states): no more actions have run than the text has characters
C17_Bound ==
  /\ Len(hist) <= Len(content)
  /\ Len(hist) <= lastIndex /\ lastIndex <= Len(content)

\* C17: on every text JSON_parse ends, after at most as many actions as the
\* text has characters; every match is non-empty and adjoins the one before.
C17_Terminates == [][C17_Match]_vars /\ []C17_Bound /\ <>Ended

\* C17 witness: a text of three characters parsed with three actions
C17_OneActionPerCharacter ==
  /\ status = "done"
  /\ Len(content) = 3 /\ Len(hist) = 3

\* C18: in every Object context, active or enclosing, closed or not, the
\* pending name is a string exactly in the states NAME and COLON and is
\* undefined in INITIAL, VALUE and COMMA; hence neither the check of add that
\* no name is pending (INITIAL, COMMA) nor its check that the pending name is
\* a string (COLON) can throw.
C18_PendingName ==
  \A c \in 1..Len(ctxs) :
    ctxs[c].kind = "Object" =>
      /\ ctxs[c].state \in {"INITIAL", "NAME", "COLON", "VALUE", "COMMA"}
      /\ ctxs[c].name.t = "string" <=> ctxs[c].state \in {"NAME", "COLON"}
      /\ ctxs[c].state \in {"INITIAL", "VALUE", "COMMA"} => ctxs[c].name = Undefined
      /\ ctxs[c].state \in {"INITIAL", "COMMA"} =>
           ~unexpectedValueIfIsUndefined(ctxs[c].name)
      /\ ctxs[c].state = "COLON" => ~unexpectedValueIfIsString(ctxs[c].name)

\* C18 witness: an object that has stored one property and holds the name of
\* the next
C18_SecondNamePending ==
  /\ status = "scanning"
  /\ Active.kind = "Object" /\ Active.state = "NAME"
  /\ Len(Active.props) = 1
  /\ Active.name.t = "string" /\ Active.name.s # Active.props[1].k

\* the contexts that enclose context c: those on the way from c back to the
\* Root, the Root included and c not
RECURSIVE Enclosing(_, _)
Enclosing(h, c) ==
  IF h[c].kind = "Root" THEN {} ELSE {h[c].save} \cup Enclosing(h, h[c].save)

\* the context holds a value and awaits what may follow one
PostValue(x) ==
  CASE x.kind = "Root" -> x.value # Undefined
    [] x.kind = "Array" -> x.state = "VALUE"
    [] x.kind = "Object" -> x.state = "VALUE" /\ x.name = Undefined

\* C19 (states): every context that encloses the active one is in the state
\* that follows a value
C19_EnclosingPostValue == \A c \in Enclosing(ctxs, cur) : PostValue(ctxs[c])

\* C19 (steps): no step changes a context that encloses the active one
C19_EnclosingUnchanged == \A c \in Enclosing(ctxs, cur) : ctxs'[c] = ctxs[c]

\* C19 (steps): the match that follows an accepted close bracket is accepted
\* exactly when it is white space or, with an Array or Object resumed, a comma
\* or the close bracket of that context; a value or an open bracket is
\* rejected, and so is everything but white space once the Root is resumed.
C19_AfterClose ==
  (/\ status = "scanning" /\ hist # <<>> /\ hist' # hist
   /\ RuleOf(hist[Len(hist)]) \in {8, 9}) =>
    /\ PostValue(Active)
    /\ status' = "scanning" <=>
         RuleOf(hist'[Len(hist')]) \in
           (CASE Active.kind = "Root" -> {12}
              [] Active.kind = "Array" -> {8, 10, 12}
              [] Active.kind = "Object" -> {9, 10, 12})

\* C19: while a nested context is active the contexts around it rest in their
\* state after a value, and a resumed context takes no second value.
C19_EnclosingAtRest ==
  /\ []C19_EnclosingPostValue
  /\ [][C19_EnclosingUnchanged /\ C19_AfterClose]_vars

\* C19 witness: `]` returned to an object, which then rejected a value
C19_ValueRejectedAfterClose ==
  /\ ActionFailed /\ Len(hist) >= 2
  /\ RuleOf(hist[Len(hist) - 1]) = 8
  /\ RuleOf(hist[Len(hist)]) \in 1..7
  /\ Active.kind = "Object" /\ Enclosing(ctxs, cur) = {1}

\* the values offered to a context in the runs of Spec
OfferedValues ==
  {NullValue, BoolValue(TRUE), BoolValue(FALSE),
   StringValue(Text(<<"a">>)), NumberValue(1, 0)}

\* the calls a rule's action can make on the active context
Operations ==
  {add(ctxs, cur, v) : v \in OfferedValues}
    \cup {colon(ctxs, cur), comma(ctxs, cur),
          closeSquareBracket(ctxs, cur), closeCurlyBracket(ctxs, cur),
          NewArrayContext(ctxs, cur, lastIndex), NewObjectContext(ctxs, cur, lastIndex)}

\* C20 (states): whichever operation is called on the active context, if it
\* throws it leaves every context as it was
C20_RejectedLeavesHeap == \A res \in Operations : ~res.ok => res.h = ctxs

\* C20 (steps): a step in which an action or final() throws changes no
\* context (state, collection, pending name) and leaves the same context
\* active
C20_FailedStep == status' = "failed" => (ctxs' = ctxs /\ cur' = cur)

\* C20: a context operation that fails has no effect
C20_FailureHasNoEffect == []C20_RejectedLeavesHeap /\ [][C20_FailedStep]_vars

\* C20 witness: an array that holds an element rejected a second value
C20_ArrayKeptAfterRejection ==
  /\ ActionFailed
  /\ RuleOf(hist[Len(hist)]) \in ValueRules
  /\ Active.kind = "Array" /\ Active.state = "VALUE"
  /\ Len(Active.elems) = 1
  /\ err.message[1] = "Unexpected"

====
